---- MODULE Spec2Model ----
(***************************************************************************)
(* Backinfront: an offline request dispatcher, a schema migration engine   *)
(* and a synchronization engine over a local transactional store           *)
(* (src/src/Backinfront.js).                                               *)
(***************************************************************************)
EXTENDS Integers, Sequences, FiniteSets, TLC

(***************************************************************************)
(* Bounds of the model.                                                    *)
(***************************************************************************)
\* number of sync-queue entries ever created
MaxQueue == 2
\* number of sync-queue entries of a queue content a round is started on
MaxEntries == 3
\* number of routes registered
MaxRoutes == 2
\* specificities run over 1..MaxSpecificity
MaxSpecificity == 2
\* number of migration runs against one store
MaxRuns == 2
\* the clock runs over 1..MaxTime
MaxTime == 2
\* number of server-changes in one response of the remote authority
MaxServerChanges == 1

\* the callers that may invoke sync() concurrently
SyncCallers == {"s1", "s2"}
Times == 1..MaxTime
StoreNames == {"Contact", "Project"}
Keys == {"k1", "k2"}
\* the records local mutations and server-changes are about
Records == {<<"Contact", "k1">>, <<"Contact", "k2">>, <<"Project", "k1">>}
ServerRecords == {<<"Contact", "k1">>}

VARIABLES
  \* ---- synchronization engine ----
  syncInProgress,   \* #syncInProgress
  syncQueue,        \* content of the __SyncQueue store: a set of entries
  lastChangeAt,     \* __Metadata['lastChangeAt']; 0 when absent
  stores,           \* content of the entity stores: Records -> value
  clock,            \* new Date()
  nextId,           \* number of sync-queue entries created so far
  syncPc,           \* position of each sync() call
  syncLocal,        \* local variables of each sync() call
  syncResult,       \* how the last sync() call of each caller ended
  \* ---- request dispatcher: transactional execution ----
  reqPc,            \* position of each dispatched request in #getRouteResponse
  tx,               \* ctx.transaction of each request: its state and its writes
  txOrder,          \* the live transactions, in the order they were created
  handlerOutcome,   \* how the route handler of each request ended
  response,         \* the response built for each request
  hookCalls,        \* number of onRequest invocations for each request
  \* ---- request dispatcher: route index ----
  routes,           \* this.routes: bucket -> descriptors, in the order tried
  registered,       \* number of routes registered so far
  dispatched,       \* what the fetch listener did with the last intercepted call
  \* ---- store access layer and migration engine ----
  databaseConfigurationStarted,
  databaseConfigurationEnded,
  databaseSchema,   \* #databaseSchema: the declared schema
  dbVersion,        \* structural version of the store; 0 when it does not exist
  dbSchema,         \* the persisted schema
  gatePc,           \* position of each store-access call
  cfg,              \* local variables of each #configureDatabase run
  migrationRuns     \* number of migration runs completed since the store was created

varsSyncOnly == <<syncInProgress, syncQueue, lastChangeAt, clock, nextId,
                  syncPc, syncLocal, syncResult>>
varsSync == <<varsSyncOnly, stores>>
varsRequest == <<reqPc, tx, txOrder, handlerOutcome, response, hookCalls>>
varsRoute == <<routes, registered, dispatched>>
varsDb == <<databaseConfigurationStarted, databaseConfigurationEnded, databaseSchema,
            dbVersion, dbSchema, gatePc, cfg, migrationRuns>>

vars == <<varsSyncOnly, stores, varsRequest, varsRoute, varsDb>>

notSync == <<varsRequest, varsRoute, varsDb>>
notRequest == <<varsSyncOnly, varsRoute, varsDb>>
notRoute == <<varsSyncOnly, stores, varsRequest, varsDb>>
notDb == <<varsSyncOnly, stores, varsRequest, varsRoute>>

(***************************************************************************)
(* The parts of the state a specification leaves at rest                   *)
(***************************************************************************)
Requests == {"r1", "r2"}
GateCallers == {"c1", "c2", "c3"}
\* routes are registered for one origin; calls are intercepted for two
RouteOrigin == "https://app.test"
RequestOrigins == {RouteOrigin, "https://cdn.test"}
Methods == {"GET", "POST"}
\* a path parameter, matching any one segment
Param == ":id"
PathPatterns == {<<"items">>, <<Param>>, <<"items", "active">>, <<"items", Param>>}
RequestPaths == {<<>>, <<"items">>, <<"active">>, <<"items", "active">>,
                 <<"items", "x1">>}
Buckets == {RouteOrigin} \X Methods \X {Len(pt) : pt \in PathPatterns}
NoRoutes == [b \in Buckets |-> <<>>]
NoDispatch == [request |-> [origin |-> "", method |-> "", path |-> <<>>],
               outcome |-> "none", route |-> 0]
NoTx == [state |-> "none", writes |-> {}]
NoCfg == [databaseVersion |-> 0, databaseMigrations |-> <<>>]
\* a schema without any store, an index map without any index
NoStores == [n \in {} |-> 0]

SyncAtRest ==
  /\ syncInProgress = FALSE
  /\ syncQueue = {}
  /\ lastChangeAt = 0
  /\ clock = 1
  /\ nextId = 0
  /\ syncPc = [p \in SyncCallers |-> "idle"]
  /\ syncLocal = [p \in SyncCallers |->
                   [currentLastChangeAt |-> 0, nextLastChangeAt |-> 0,
                    syncQueueItems |-> <<>>, clientData |-> <<>>,
                    serverData |-> <<>>]]
  /\ syncResult = [p \in SyncCallers |-> "none"]

StoresEmpty == stores = [r \in Records |-> "absent"]

RequestAtRest ==
  /\ reqPc = [r \in Requests |-> "idle"]
  /\ tx = [r \in Requests |-> NoTx]
  /\ txOrder = <<>>
  /\ handlerOutcome = [r \in Requests |-> "none"]
  /\ response = [r \in Requests |-> "none"]
  /\ hookCalls = [r \in Requests |-> 0]

RouteAtRest ==
  /\ routes = NoRoutes
  /\ registered = 0
  /\ dispatched = NoDispatch

DbAtRest ==
  /\ databaseConfigurationStarted = FALSE
  /\ databaseConfigurationEnded = FALSE
  /\ databaseSchema = NoStores
  /\ dbVersion = 0
  /\ dbSchema = NoStores
  /\ gatePc = [c \in GateCallers |-> "idle"]
  /\ cfg = [c \in GateCallers |-> NoCfg]
  /\ migrationRuns = 0

(***************************************************************************)
(* Synchronization engine                                                  *)
(***************************************************************************)
NoLocal == [currentLastChangeAt |-> 0, nextLastChangeAt |-> 0,
            syncQueueItems |-> <<>>, clientData |-> <<>>, serverData |-> <<>>]

\* cursor order of the 'createdAt' index: e comes before f in direction 'prev'
ComesBeforePrev(e, f) ==
  \/ e.createdAt > f.createdAt
  \/ e.createdAt = f.createdAt /\ e.id >= f.id

ComesBeforeNext(e, f) ==
  \/ e.createdAt < f.createdAt
  \/ e.createdAt = f.createdAt /\ e.id <= f.id

RECURSIVE CursorWalk(_, _)
CursorWalk(S, prev) ==
  IF S = {} THEN <<>>
  ELSE LET first == CHOOSE e \in S : \A f \in S :
                      IF prev THEN ComesBeforePrev(e, f) ELSE ComesBeforeNext(e, f)
       IN <<first>> \o CursorWalk(S \ {first}, prev)

\* a cursor opened with direction 'next' instead of 'prev'
OpenCursorNext(S) == CursorWalk(S, FALSE)

\* syncQueueStore.index('createdAt').openCursor(null, 'prev'), walked to its end
OpenCursor(S) == CursorWalk(S, TRUE)

\* deduplicateArray(items, ['storeName', 'primaryKey'])
deduplicateArray(items) ==
  LET keep == {i \in 1..Len(items) :
                 \A j \in 1..(i - 1) :
                   \/ items[j].storeName # items[i].storeName
                   \/ items[j].primaryKey # items[i].primaryKey}
      RECURSIVE Pick(_)
      Pick(i) == IF i > Len(items) THEN <<>>
                 ELSE (IF i \in keep THEN <<items[i]>> ELSE <<>>) \o Pick(i + 1)
  IN Pick(1)

\* the client payload built from the deduplicated entries
ClientData(items, st) ==
  LET d == deduplicateArray(items)
  IN [i \in 1..Len(d) |->
        [createdAt |-> d[i].createdAt, storeName |-> d[i].storeName,
         primaryKey |-> d[i].primaryKey,
         data |-> st[<<d[i].storeName, d[i].primaryKey>>]]]

ServerChange ==
  {[createdAt |-> t, storeName |-> r[1], primaryKey |-> r[2], data |-> "remote"] :
     t \in Times, r \in ServerRecords}

ServerResponses ==
  UNION {[1..n -> ServerChange] : n \in 0..MaxServerChanges}

\* isAfterDate(a, b)
isAfterDate(a, b) == a > b

\* the loop over serverData: the stores after the first n upserts
RECURSIVE PutAll(_, _, _)
PutAll(st, changes, n) ==
  IF n = 0 THEN st
  ELSE LET c == changes[n]
       IN [PutAll(st, changes, n - 1) EXCEPT ![<<c.storeName, c.primaryKey>>] = c.data]

\* the candidate watermark after the first n server-changes
RECURSIVE NextLastChangeAt(_, _, _)
NextLastChangeAt(next, changes, n) ==
  IF n = 0 THEN next
  ELSE LET before == NextLastChangeAt(next, changes, n - 1)
           createdDate == changes[n].createdAt
       IN IF before = 0 \/ isAfterDate(createdDate, before)
          THEN createdDate ELSE before

\* a fresh install: nothing queued, nothing stored, no watermark
InitSync ==
  /\ SyncAtRest
  /\ StoresEmpty
  /\ RequestAtRest
  /\ RouteAtRest
  /\ DbAtRest

\* time passes
Tick ==
  /\ clock < MaxTime
  /\ clock' = clock + 1
  /\ UNCHANGED <<syncInProgress, syncQueue, lastChangeAt, stores, nextId,
                 syncPc, syncLocal, syncResult>>
  /\ UNCHANGED notSync

\* a local mutation of one record, committed with its sync-queue entry
AddToSyncQueue(storeName, primaryKey) ==
  /\ nextId < MaxQueue
  /\ nextId' = nextId + 1
  /\ stores' = [stores EXCEPT ![<<storeName, primaryKey>>] = "local"]
  /\ syncQueue' = syncQueue \cup
       {[id |-> nextId + 1, createdAt |-> clock,
         storeName |-> storeName, primaryKey |-> primaryKey]}
  /\ UNCHANGED <<syncInProgress, lastChangeAt, clock, syncPc, syncLocal,
                 syncResult>>
  /\ UNCHANGED notSync

\* sync() with the guard taken without being tested
SyncCallUnguarded(p) ==
  /\ syncPc[p] = "idle"
  /\ syncInProgress' = TRUE
  /\ syncPc' = [syncPc EXCEPT ![p] = "read"]
  /\ syncResult' = [syncResult EXCEPT ![p] = "none"]
  /\ UNCHANGED <<syncQueue, lastChangeAt, stores, clock, nextId, syncLocal>>
  /\ UNCHANGED notSync

\* sync() up to its first suspension: the reentrancy guard
SyncCall(p) ==
  /\ syncPc[p] = "idle"
  /\ IF syncInProgress
     THEN /\ syncResult' = [syncResult EXCEPT ![p] = "noop"]
          /\ UNCHANGED <<syncInProgress, syncPc>>
     ELSE /\ syncInProgress' = TRUE
          /\ syncPc' = [syncPc EXCEPT ![p] = "read"]
          /\ syncResult' = [syncResult EXCEPT ![p] = "none"]
  /\ UNCHANGED <<syncQueue, lastChangeAt, stores, clock, nextId, syncLocal>>
  /\ UNCHANGED notSync

\* the read-only transaction: watermark, queue scan, deduplicated payload
SyncRead(p) ==
  /\ syncPc[p] = "read"
  /\ LET cur == IF lastChangeAt = 0 THEN clock ELSE lastChangeAt
         next == IF lastChangeAt = 0 THEN clock ELSE 0
         items == OpenCursor(syncQueue)
     IN syncLocal' = [syncLocal EXCEPT ![p] =
          [currentLastChangeAt |-> cur, nextLastChangeAt |-> next,
           syncQueueItems |-> items,
           clientData |-> ClientData(items, stores),
           serverData |-> <<>>]]
  /\ syncPc' = [syncPc EXCEPT ![p] = "fetch"]
  /\ UNCHANGED <<syncInProgress, syncQueue, lastChangeAt, stores, clock, nextId,
                 syncResult>>
  /\ UNCHANGED notSync

\* the round ends with an error raised to the caller, the guard left as it is
SyncRaiseKeepsGuard(p) ==
  /\ UNCHANGED syncInProgress
  /\ syncPc' = [syncPc EXCEPT ![p] = "idle"]
  /\ syncLocal' = [syncLocal EXCEPT ![p] = NoLocal]
  /\ syncResult' = [syncResult EXCEPT ![p] = "error"]
  /\ UNCHANGED notSync

\* the finally block: the round ends with an error raised to the caller
SyncRaise(p) ==
  /\ syncInProgress' = FALSE
  /\ syncPc' = [syncPc EXCEPT ![p] = "idle"]
  /\ syncLocal' = [syncLocal EXCEPT ![p] = NoLocal]
  /\ syncResult' = [syncResult EXCEPT ![p] = "error"]
  /\ UNCHANGED notSync

\* the first transaction cannot be opened or read
SyncReadFail(p) ==
  /\ syncPc[p] = "read"
  /\ SyncRaise(p)
  /\ UNCHANGED <<syncQueue, lastChangeAt, stores, clock, nextId>>

\* the exchange with the remote authority succeeds with some response
SyncFetch(p, serverData) ==
  /\ syncPc[p] = "fetch"
  /\ syncLocal' = [syncLocal EXCEPT ![p].serverData = serverData]
  /\ syncPc' = [syncPc EXCEPT ![p] = "write"]
  /\ UNCHANGED <<syncInProgress, syncQueue, lastChangeAt, stores, clock, nextId,
                 syncResult>>
  /\ UNCHANGED notSync

\* a failed exchange after which the queue is cleared as after a successful one
SyncFetchFailClears(p) ==
  /\ syncPc[p] = "fetch"
  /\ SyncRaise(p)
  /\ syncQueue' = IF Len(syncLocal[p].clientData) # 0 THEN {} ELSE syncQueue
  /\ UNCHANGED <<lastChangeAt, stores, clock, nextId>>

\* transport failure, non-success status or undecodable response
SyncFetchFail(p) ==
  /\ syncPc[p] = "fetch"
  /\ SyncRaise(p)
  /\ UNCHANGED <<syncQueue, lastChangeAt, stores, clock, nextId>>

\* the write-back with every upsert recorded as a local mutation: each
\* server-change appends an entry to the sync queue
SyncWriteRecorded(p) ==
  /\ syncPc[p] = "write"
  /\ LET l == syncLocal[p]
         n == Len(l.serverData)
         next == NextLastChangeAt(l.nextLastChangeAt, l.serverData, n)
         kept == IF Len(l.clientData) # 0 THEN {} ELSE syncQueue
     IN /\ stores' = PutAll(stores, l.serverData, n)
        /\ lastChangeAt' = IF next # 0 THEN next ELSE lastChangeAt
        /\ syncQueue' = kept \cup
             {[id |-> nextId + i, createdAt |-> clock,
               storeName |-> l.serverData[i].storeName,
               primaryKey |-> l.serverData[i].primaryKey] : i \in 1..n}
        /\ nextId' = nextId + n
  /\ syncInProgress' = FALSE
  /\ syncPc' = [syncPc EXCEPT ![p] = "idle"]
  /\ syncLocal' = [syncLocal EXCEPT ![p] = NoLocal]
  /\ syncResult' = [syncResult EXCEPT ![p] = "ok"]
  /\ UNCHANGED clock
  /\ UNCHANGED notSync

\* the read-write transaction: upserts, watermark, queue clearing
SyncWrite(p) ==
  /\ syncPc[p] = "write"
  /\ LET l == syncLocal[p]
         n == Len(l.serverData)
         next == NextLastChangeAt(l.nextLastChangeAt, l.serverData, n)
     IN /\ stores' = PutAll(stores, l.serverData, n)
        /\ lastChangeAt' = IF next # 0 THEN next ELSE lastChangeAt
        /\ syncQueue' = IF Len(l.clientData) # 0 THEN {} ELSE syncQueue
  /\ syncInProgress' = FALSE
  /\ syncPc' = [syncPc EXCEPT ![p] = "idle"]
  /\ syncLocal' = [syncLocal EXCEPT ![p] = NoLocal]
  /\ syncResult' = [syncResult EXCEPT ![p] = "ok"]
  /\ UNCHANGED <<clock, nextId>>
  /\ UNCHANGED notSync

\* a store error during the write-back: the upserts issued so far may stay
SyncWriteFail(p, n) ==
  /\ syncPc[p] = "write"
  /\ n <= Len(syncLocal[p].serverData)
  /\ stores' = PutAll(stores, syncLocal[p].serverData, n)
  /\ SyncRaise(p)
  /\ UNCHANGED <<syncQueue, lastChangeAt, clock, nextId>>

NextSync ==
  \/ Tick
  \/ \E r \in Records : AddToSyncQueue(r[1], r[2])
  \/ \E p \in SyncCallers : SyncCall(p)
  \/ \E p \in SyncCallers : SyncRead(p)
  \/ \E p \in SyncCallers : SyncReadFail(p)
  \/ \E p \in SyncCallers, r \in ServerResponses : SyncFetch(p, r)
  \/ \E p \in SyncCallers : SyncFetchFail(p)
  \/ \E p \in SyncCallers : SyncWrite(p)
  \/ \E p \in SyncCallers, n \in 0..MaxServerChanges : SyncWriteFail(p, n)

SpecSync == InitSync /\ [][NextSync]_vars

(***************************************************************************)
(* A round started on an arbitrary content of the sync queue               *)
(***************************************************************************)
QueueContents ==
  UNION {{{[id |-> i, createdAt |-> f[i][1],
            storeName |-> f[i][2][1], primaryKey |-> f[i][2][2]] : i \in 1..n} :
            f \in [1..n -> Times \X Records]} : n \in 0..MaxEntries}

InitQueue ==
  /\ syncQueue \in QueueContents
  /\ stores = [r \in Records |->
                 IF \E e \in syncQueue : <<e.storeName, e.primaryKey>> = r
                 THEN "local" ELSE "absent"]
  /\ nextId = Cardinality(syncQueue)
  /\ clock = MaxTime
  /\ syncInProgress = FALSE
  /\ lastChangeAt = 0
  /\ syncPc = [p \in SyncCallers |-> "idle"]
  /\ syncLocal = [p \in SyncCallers |-> NoLocal]
  /\ syncResult = [p \in SyncCallers |-> "none"]
  /\ RequestAtRest
  /\ RouteAtRest
  /\ DbAtRest

NextQueue ==
  \/ \E p \in SyncCallers : SyncCall(p)
  \/ \E p \in SyncCallers : SyncRead(p)
  \/ \E p \in SyncCallers : SyncFetchFail(p)

SpecQueue == InitQueue /\ [][NextQueue]_vars

(***************************************************************************)
(* Request dispatcher: transactional execution of a matched route          *)
(*                                                                         *)
(* A transaction buffers the writes of its request; they reach the stores  *)
(* when it completes. Read-write transactions over the same stores run one *)
(* after the other, in the order they were created. A transaction with no  *)
(* pending store request completes by itself as soon as its owner suspends *)
(* on anything that is not a store operation.                              *)
(***************************************************************************)
Remove(seq, x) == SelectSeq(seq, LAMBDA y : y # x)

\* the stores once the writes of request r have been applied
Flush(st, r) == [rec \in Records |-> IF rec \in tx[r].writes THEN r ELSE st[rec]]

InitRequest ==
  /\ RequestAtRest
  /\ StoresEmpty
  /\ SyncAtRest
  /\ RouteAtRest
  /\ DbAtRest

\* #getRouteResponse up to the call of the handler: the context is built and
\* one transaction over all stores is opened
OpenRequestTransaction(r) ==
  /\ reqPc[r] = "idle"
  /\ response[r] = "none"
  /\ reqPc' = [reqPc EXCEPT ![r] = "handler"]
  /\ tx' = [tx EXCEPT ![r] = [state |-> "active", writes |-> {}]]
  /\ txOrder' = Append(txOrder, r)
  /\ UNCHANGED <<stores, handlerOutcome, response, hookCalls>>
  /\ UNCHANGED notRequest

\* the handler writes a record through its transaction
HandlerPut(r, rec) ==
  /\ reqPc[r] = "handler"
  /\ tx[r].state = "active"
  /\ txOrder # <<>> /\ Head(txOrder) = r
  /\ rec \notin tx[r].writes
  /\ tx' = [tx EXCEPT ![r].writes = @ \cup {rec}]
  /\ UNCHANGED <<stores, reqPc, txOrder, handlerOutcome, response, hookCalls>>
  /\ UNCHANGED notRequest

\* the handler suspends on an operation that is not a store operation: its
\* transaction, if still active, completes prematurely
HandlerSuspend(r) ==
  /\ reqPc[r] = "handler"
  /\ tx[r].state = "active"
  /\ stores' = Flush(stores, r)
  /\ tx' = [tx EXCEPT ![r].state = "completed"]
  /\ txOrder' = Remove(txOrder, r)
  /\ UNCHANGED <<reqPc, handlerOutcome, response, hookCalls>>
  /\ UNCHANGED notRequest

\* ctx.transaction.abort() inside try/catch: a no-op on a completed transaction
Abort(r) ==
  /\ tx' = [tx EXCEPT ![r].state =
              IF tx[r].state = "active" THEN "aborted" ELSE @]
  /\ UNCHANGED stores

\* ctx.transaction.commit() inside try/catch: a no-op on a completed transaction
Commit(r) ==
  /\ tx' = [tx EXCEPT ![r].state =
              IF tx[r].state = "active" THEN "committed" ELSE @]
  /\ stores' = IF tx[r].state = "active" THEN Flush(stores, r) ELSE stores

\* the handler settles and #getRouteResponse runs to its end: the transaction
\* is terminated, the response is built, the onRequest hook is invoked
\*   outcome:   "returned", or what the handler raised: a truthy value (an
\*              Error object) or a falsy one (undefined, null, 0, '')
\*   hookFails: the onRequest hook raises
Settle(r, outcome, hookFails) ==
  /\ reqPc[r] = "handler"
  /\ handlerOutcome' = [handlerOutcome EXCEPT ![r] = outcome]
  /\ IF outcome = "raisedTruthy"
     THEN /\ Abort(r)
          /\ response' = [response EXCEPT ![r] = "500"]
     ELSE /\ Commit(r)
          /\ response' = [response EXCEPT ![r] = "200"]
  /\ txOrder' = Remove(txOrder, r)
  /\ hookCalls' = [hookCalls EXCEPT ![r] = @ + 1]
  /\ reqPc' = [reqPc EXCEPT ![r] = IF hookFails THEN "rejected" ELSE "responded"]
  /\ UNCHANGED notRequest

HandlerOutcomes == {"returned", "raisedTruthy", "raisedFalsy"}

NextRequest ==
  \/ \E r \in Requests : OpenRequestTransaction(r)
  \/ \E r \in Requests, rec \in Records : HandlerPut(r, rec)
  \/ \E r \in Requests : HandlerSuspend(r)
  \/ \E r \in Requests, o \in HandlerOutcomes, h \in BOOLEAN : Settle(r, o, h)

SpecRequest == InitRequest /\ [][NextRequest]_vars

\* the handler of request r has raised and the request is over
RaisedAndOver(r) ==
  /\ reqPc[r] \in {"responded", "rejected"}
  /\ handlerOutcome[r] \in {"raisedTruthy", "raisedFalsy"}

\* C4 (as claimed): once the response of a request whose handler raised is
\* produced, no store holds a write of that handler
C4_NoWriteSurvivesARaise ==
  \A r \in Requests :
    RaisedAndOver(r) => \A rec \in Records : stores[rec] # r

\* #getRouteResponse has run to its end for request r
Over(r) == reqPc[r] \in {"responded", "rejected"}

\* C13 (as claimed): once a dispatched request is over, the onRequest hook was
\* invoked exactly once for it, and the caller has received the response built
\* for the handler outcome, whether the hook failed or not
C13_HookOnceAndHarmless ==
  \A r \in Requests :
    Over(r) => /\ hookCalls[r] = 1
               /\ response[r] \in {"200", "500"}
               /\ reqPc[r] = "responded"

\* C14 (as claimed): once a dispatched request is over, its transaction was
\* aborted and the response is a 500 exactly when the handler raised, whatever
\* it raised, and it was committed and the response is a success exactly when
\* the handler returned; a transaction that had completed before is left as is
C14_TerminatedByOutcome ==
  \A r \in Requests :
    Over(r) =>
      /\ (handlerOutcome[r] \in {"raisedTruthy", "raisedFalsy"})
           <=> (response[r] = "500" /\ tx[r].state \in {"aborted", "completed"})
      /\ (handlerOutcome[r] = "returned")
           <=> (response[r] = "200" /\ tx[r].state \in {"committed", "completed"})

(***************************************************************************)
(* Request dispatcher: the route index and route resolution                *)
(***************************************************************************)
\* what a router hands over for one route
RouteInputs == [origin : {RouteOrigin}, method : Methods, pattern : PathPatterns,
                specificity : 1..MaxSpecificity]

InterceptedCalls == [origin : RequestOrigins, method : Methods, path : RequestPaths]

\* the route descriptor built for an input; order is its registration rank
Descriptor(input, order) ==
  [origin |-> input.origin, method |-> input.method,
   length |-> Len(input.pattern), pattern |-> input.pattern,
   specificity |-> input.specificity, order |-> order]

\* route.regexp.test(origin + pathname)
RegexpTest(route, request) ==
  /\ route.origin = request.origin
  /\ Len(route.pattern) = Len(request.path)
  /\ \A i \in 1..Len(route.pattern) :
       route.pattern[i] = Param \/ route.pattern[i] = request.path[i]

\* the bucket left as pushed, without reordering
NoSort(target) == target

\* target.sort((a, b) => b.specificity - a.specificity): a stable sort
RECURSIVE Sort(_)
Sort(target) ==
  IF Len(target) <= 1 THEN target
  ELSE LET n == Len(target)
           front == Sort(SubSeq(target, 1, n - 1))
           last == target[n]
           \* the elements that stay before last: not less specific than it
           k == Cardinality({i \in 1..(n - 1) :
                               front[i].specificity >= last.specificity})
       IN SubSeq(front, 1, k) \o <<last>> \o SubSeq(front, k + 1, n - 1)

\* one turn of the loop of addRouter: push, then reorder
AddRoute(rts, route) ==
  LET b == <<route.origin, route.method, route.length>>
  IN [rts EXCEPT ![b] = Sort(Append(rts[b], route))]

RECURSIVE AddRoutes(_, _, _)
AddRoutes(rts, inputs, count) ==
  IF inputs = <<>> THEN rts
  ELSE AddRoutes(AddRoute(rts, Descriptor(Head(inputs), count + 1)),
                 Tail(inputs), count + 1)

\* this.routes[origin] is defined
HasOrigin(rts, origin) == \E b \in DOMAIN rts : b[1] = origin /\ rts[b] # <<>>

\* this.routes[origin][method] is defined
HasMethod(rts, origin, method) ==
  \E b \in DOMAIN rts : b[1] = origin /\ b[2] = method /\ rts[b] # <<>>

\* routeLocation, or <<>> when the bucket is undefined
RouteLocation(rts, request) ==
  LET b == <<request.origin, request.method, Len(request.path)>>
  IN IF b \in DOMAIN rts THEN rts[b] ELSE <<>>

\* #findRouteFromRequest: a route, undefined, or the TypeError of reading
\* the length of the null that match() returns for a path without segment
FindRouteFromRequest(rts, request) ==
  IF ~HasOrigin(rts, request.origin) \/ ~HasMethod(rts, request.origin, request.method)
  THEN [kind |-> "undefined", order |-> 0]
  ELSE IF Len(request.path) = 0
  THEN [kind |-> "TypeError", order |-> 0]
  ELSE LET routeLocation == RouteLocation(rts, request)
           found == {i \in 1..Len(routeLocation) : RegexpTest(routeLocation[i], request)}
       IN IF found = {} THEN [kind |-> "undefined", order |-> 0]
          ELSE [kind |-> "route",
                order |-> routeLocation[CHOOSE i \in found : \A j \in found : i <= j].order]

InitRoute ==
  /\ RouteAtRest
  /\ SyncAtRest
  /\ StoresEmpty
  /\ RequestAtRest
  /\ DbAtRest

\* addRouter: every route of the router is pushed to its bucket
AddRouter(inputs) ==
  /\ registered + Len(inputs) <= MaxRoutes
  /\ routes' = AddRoutes(routes, inputs, registered)
  /\ registered' = registered + Len(inputs)
  /\ UNCHANGED dispatched
  /\ UNCHANGED notRoute

\* the 'fetch' listener of the constructor
FetchEvent(request) ==
  /\ LET route == FindRouteFromRequest(routes, request)
     IN dispatched' =
          [request |-> request,
           outcome |-> CASE route.kind = "route" -> "respondWith"
                         [] route.kind = "undefined" -> "passThrough"
                         [] route.kind = "TypeError" -> "uncaughtTypeError",
           route |-> route.order]
  /\ UNCHANGED <<routes, registered>>
  /\ UNCHANGED notRoute

Routers == UNION {[1..n -> RouteInputs] : n \in 1..MaxRoutes}

NextRoute ==
  \/ \E inputs \in Routers : AddRouter(inputs)
  \/ \E request \in InterceptedCalls : FetchEvent(request)

SpecRoute == InitRoute /\ [][NextRoute]_vars

\* the descriptors registered for the bucket of a request that match it
Matching(request) ==
  LET routeLocation == RouteLocation(routes, request)
  IN {routeLocation[i] : i \in {j \in 1..Len(routeLocation) :
                                   RegexpTest(routeLocation[j], request)}}

\* C8: a request matched by some descriptor of its bucket resolves to the
\* matching descriptor of highest specificity and, among matching descriptors
\* of that specificity, to the one registered first.
C8_MostSpecificThenFirstRegistered ==
  \A request \in InterceptedCalls :
    Matching(request) # {} =>
      LET found == FindRouteFromRequest(routes, request)
      IN /\ found.kind = "route"
         /\ \E r \in Matching(request) :
              /\ r.order = found.order
              /\ \A d \in Matching(request) :
                   \/ d.specificity < r.specificity
                   \/ d.specificity = r.specificity /\ r.order <= d.order

\* C8 witness: a call was answered with a route registered after a less
\* specific route that matches the same call
C8_Witness ==
  /\ dispatched.outcome = "respondWith"
  /\ \E r, d \in Matching(dispatched.request) :
       /\ r.order = dispatched.route
       /\ d.order < r.order
       /\ d.specificity < r.specificity

\* C9 (as claimed): an intercepted call with no bucket or no matching
\* descriptor, a call for a path without segment included, is passed through
C9_UnmatchedCallPassesThrough ==
  (dispatched.outcome # "none" /\ Matching(dispatched.request) = {})
    => dispatched.outcome = "passThrough"

(***************************************************************************)
(* Schema migration engine and the database-ready gate                     *)
(***************************************************************************)
\* key paths: null, a string, or an array of strings
NullKeyPath == [array |-> FALSE, path |-> <<>>]
Str(field) == [array |-> FALSE, path |-> <<field>>]
Arr(fields) == [array |-> TRUE, path |-> fields]

metadataStoreName == "__Metadata"
syncQueueStoreName == "__SyncQueue"

\* Object.entries() of the declared schema: insertion order
DeclaredOrder == <<metadataStoreName, syncQueueStoreName, "Contact">>
\* db.objectStoreNames: a sorted list
ObjectStoreNames == <<"Contact", "Legacy", metadataStoreName, syncQueueStoreName>>
IndexNames == <<"byName", "createdAt">>

\* the entries of object f, keys taken in the given order
RECURSIVE KeysInOrder(_, _)
KeysInOrder(f, order) ==
  IF order = <<>> THEN <<>>
  ELSE (IF Head(order) \in DOMAIN f THEN <<Head(order)>> ELSE <<>>)
         \o KeysInOrder(f, Tail(order))

OneIndex(name, keyPath) == [n \in {name} |-> keyPath]

\* the initial value of #databaseSchema: the two reserved stores
ReservedSchema ==
  [n \in {metadataStoreName, syncQueueStoreName} |->
     IF n = metadataStoreName
     THEN [keyPath |-> NullKeyPath, indexes |-> NoStores]
     ELSE [keyPath |-> Str("id"), indexes |-> OneIndex("createdAt", Str("createdAt"))]]

\* addStore: the store's schema is added under its name
addStore(schema, storeName, storeSchema) ==
  [n \in DOMAIN schema \cup {storeName} |->
     IF n = storeName THEN storeSchema ELSE schema[n]]

ContactSchemas ==
  [keyPath : {Str("id"), Str("uuid")},
   indexes : {NoStores, OneIndex("byName", Str("name")),
              OneIndex("byName", Arr(<<"last", "first">>)),
              OneIndex("byName", Arr(<<"first", "last">>))}]

LegacySchema == [keyPath |-> Str("id"), indexes |-> NoStores]

\* the schemas an application declares: with or without a Contact store
DeclaredSchemas ==
  {ReservedSchema} \cup {addStore(ReservedSchema, "Contact", c) : c \in ContactSchemas}

\* the schemas a store can be found with: none (a fresh store), or the one an
\* earlier version of the application declared
PersistedSchemas ==
  {NoStores} \cup DeclaredSchemas
    \cup {addStore(d, "Legacy", LegacySchema) : d \in DeclaredSchemas}

\* currentIndexKeyPath !== newIndexKeyPath: two arrays are never the same object
StrictlyUnequal(a, b) == a.array \/ b.array \/ a.path # b.path

\* currentIndexKeyPath.every((item, position) => item === newIndexKeyPath[position])
Every(current, new) ==
  \A i \in 1..Len(current.path) : i <= Len(new.path) /\ current.path[i] = new.path[i]

\* the condition under which an index of both schemas is deleted and recreated
IndexKeyPathChanged(current, new) ==
  \/ current.array /\ new.array /\ ~Every(current, new)
  \/ StrictlyUnequal(current, new)

DeleteIndex(storeName, indexName) ==
  [op |-> "deleteIndex", storeName |-> storeName, indexName |-> indexName,
   keyPath |-> NullKeyPath]
CreateIndex(storeName, indexName, keyPath) ==
  [op |-> "createIndex", storeName |-> storeName, indexName |-> indexName,
   keyPath |-> keyPath]
DeleteStore(storeName) ==
  [op |-> "deleteStore", storeName |-> storeName, indexName |-> "",
   keyPath |-> NullKeyPath]
CreateStore(storeName, keyPath) ==
  [op |-> "createStore", storeName |-> storeName, indexName |-> "",
   keyPath |-> keyPath]

\* the [Delete, Update] loop over the indexes of a persisted store
RECURSIVE DeleteUpdateIndexes(_, _, _, _)
DeleteUpdateIndexes(storeName, current, new, names) ==
  IF names = <<>> THEN <<>>
  ELSE LET indexName == Head(names)
           steps ==
             IF indexName \in DOMAIN new
             THEN IF IndexKeyPathChanged(current[indexName], new[indexName])
                  THEN <<DeleteIndex(storeName, indexName),
                         CreateIndex(storeName, indexName, new[indexName])>>
                  ELSE <<>>
             ELSE <<DeleteIndex(storeName, indexName)>>
       IN steps \o DeleteUpdateIndexes(storeName, current, new, Tail(names))

\* the Create loop over the indexes of a declared store: those in `names`
\* that the persisted store does not have
RECURSIVE CreateIndexes(_, _, _, _)
CreateIndexes(storeName, current, new, names) ==
  IF names = <<>> THEN <<>>
  ELSE (IF Head(names) \notin DOMAIN current
        THEN <<CreateIndex(storeName, Head(names), new[Head(names)])>>
        ELSE <<>>)
         \o CreateIndexes(storeName, current, new, Tail(names))

\* the loop over the persisted stores
RECURSIVE PersistedStoresLoop(_, _, _)
PersistedStoresLoop(current, new, names) ==
  IF names = <<>> THEN <<>>
  ELSE LET storeName == Head(names)
           steps ==
             IF storeName \in DOMAIN new
             THEN DeleteUpdateIndexes(storeName, current[storeName].indexes,
                                      new[storeName].indexes,
                                      KeysInOrder(current[storeName].indexes, IndexNames))
                    \o CreateIndexes(storeName, current[storeName].indexes,
                                     new[storeName].indexes,
                                     KeysInOrder(new[storeName].indexes, IndexNames))
             ELSE <<DeleteStore(storeName)>>
       IN steps \o PersistedStoresLoop(current, new, Tail(names))

\* the loop over the declared stores, creating the stores without their indexes
RECURSIVE DeclaredStoresLoopNoIndexes(_, _, _)
DeclaredStoresLoopNoIndexes(current, new, names) ==
  IF names = <<>> THEN <<>>
  ELSE (IF Head(names) \notin DOMAIN current
        THEN <<CreateStore(Head(names), new[Head(names)].keyPath)>>
        ELSE <<>>)
         \o DeclaredStoresLoopNoIndexes(current, new, Tail(names))

\* the loop over the declared stores
RECURSIVE DeclaredStoresLoop(_, _, _)
DeclaredStoresLoop(current, new, names) ==
  IF names = <<>> THEN <<>>
  ELSE LET storeName == Head(names)
           steps ==
             IF storeName \notin DOMAIN current
             THEN <<CreateStore(storeName, new[storeName].keyPath)>>
                    \o CreateIndexes(storeName, NoStores, new[storeName].indexes,
                                     KeysInOrder(new[storeName].indexes, IndexNames))
             ELSE <<>>
       IN steps \o DeclaredStoresLoop(current, new, Tail(names))

\* databaseMigrations as #configureDatabase collects them
DatabaseMigrations(current, new) ==
  PersistedStoresLoop(current, new, KeysInOrder(current, ObjectStoreNames))
    \o DeclaredStoresLoop(current, new, KeysInOrder(new, DeclaredOrder))

\* a string that is not a key path: the store refuses an index on it
InvalidKeyPath == Str("first name")

\* one structural operation on a schema; ok is FALSE when the store refuses it
Migrate(schema, step) ==
  LET s == step.storeName
      i == step.indexName
  IN CASE step.op = "createStore" ->
            IF s \in DOMAIN schema THEN [ok |-> FALSE, schema |-> schema]
            ELSE [ok |-> TRUE,
                  schema |-> addStore(schema, s, [keyPath |-> step.keyPath,
                                                  indexes |-> NoStores])]
       [] step.op = "deleteStore" ->
            IF s \notin DOMAIN schema THEN [ok |-> FALSE, schema |-> schema]
            ELSE [ok |-> TRUE, schema |-> [n \in DOMAIN schema \ {s} |-> schema[n]]]
       [] step.op = "createIndex" ->
            IF \/ s \notin DOMAIN schema
               \/ i \in DOMAIN schema[s].indexes
               \/ step.keyPath = InvalidKeyPath
            THEN [ok |-> FALSE, schema |-> schema]
            ELSE [ok |-> TRUE,
                  schema |-> [schema EXCEPT ![s].indexes = addStore(@, i, step.keyPath)]]
       [] step.op = "deleteIndex" ->
            IF s \notin DOMAIN schema \/ i \notin DOMAIN schema[s].indexes
            THEN [ok |-> FALSE, schema |-> schema]
            ELSE [ok |-> TRUE,
                  schema |-> [schema EXCEPT ![s].indexes =
                                [n \in DOMAIN @ \ {i} |-> @[n]]]]

\* the upgrade callback: every migration in order, inside one transaction
RECURSIVE Upgrade(_, _)
Upgrade(schema, migrations) ==
  IF migrations = <<>> THEN [ok |-> TRUE, schema |-> schema]
  ELSE LET first == Migrate(schema, Head(migrations))
       IN IF first.ok THEN Upgrade(first.schema, Tail(migrations))
          ELSE [ok |-> FALSE, schema |-> schema]

InConfiguration(c) == gatePc[c] \in {"configure", "upgrade"}

\* #databaseReady with the configuration started whatever the started flag says
DatabaseReadyUnguarded(c) ==
  /\ gatePc[c] \in {"idle", "failed", "timedOut"}
  /\ databaseConfigurationStarted' = TRUE
  /\ gatePc' = [gatePc EXCEPT ![c] = "configure"]
  /\ UNCHANGED <<databaseConfigurationEnded, databaseSchema, dbVersion, dbSchema,
                 cfg, migrationRuns>>
  /\ UNCHANGED notDb

\* #databaseReady up to its first suspension: the first caller starts the
\* configuration, the others go straight to the wait
DatabaseReady(c) ==
  /\ gatePc[c] \in {"idle", "failed", "timedOut"}
  /\ IF ~databaseConfigurationStarted
     THEN /\ databaseConfigurationStarted' = TRUE
          /\ gatePc' = [gatePc EXCEPT ![c] = "configure"]
     ELSE /\ gatePc' = [gatePc EXCEPT ![c] = "waiting"]
          /\ UNCHANGED databaseConfigurationStarted
  /\ UNCHANGED <<databaseConfigurationEnded, databaseSchema, dbVersion, dbSchema,
                 cfg, migrationRuns>>
  /\ UNCHANGED notDb

\* #configureDatabase, first half, taking the version after the store's for
\* the store's version
ConfigureReadAhead(c) ==
  /\ gatePc[c] = "configure"
  /\ dbVersion' = IF dbVersion = 0 THEN 1 ELSE dbVersion
  /\ cfg' = [cfg EXCEPT ![c] =
               [databaseVersion |-> dbVersion' + 1,
                databaseMigrations |-> DatabaseMigrations(dbSchema, databaseSchema)]]
  /\ gatePc' = [gatePc EXCEPT ![c] = "upgrade"]
  /\ UNCHANGED <<databaseConfigurationStarted, databaseConfigurationEnded,
                 databaseSchema, dbSchema, migrationRuns>>
  /\ UNCHANGED notDb

\* #configureDatabase, first half: the persisted schema is read (opening a
\* store that does not exist creates it, at version 1) and the plan is built
ConfigureRead(c) ==
  /\ gatePc[c] = "configure"
  /\ dbVersion' = IF dbVersion = 0 THEN 1 ELSE dbVersion
  /\ cfg' = [cfg EXCEPT ![c] =
               [databaseVersion |-> dbVersion',
                databaseMigrations |-> DatabaseMigrations(dbSchema, databaseSchema)]]
  /\ gatePc' = [gatePc EXCEPT ![c] = "upgrade"]
  /\ UNCHANGED <<databaseConfigurationStarted, databaseConfigurationEnded,
                 databaseSchema, dbSchema, migrationRuns>>
  /\ UNCHANGED notDb

\* the plan applied step by step, each step committed on its own: the steps
\* that precede a refused one stay
ConfigureUpgradeStepwise(c) ==
  /\ gatePc[c] = "upgrade"
  /\ \A d \in GateCallers : gatePc[d] # "holding"
  /\ LET plan == cfg[c].databaseMigrations
         version == cfg[c].databaseVersion + 1
         upgraded == Upgrade(dbSchema, plan)
     IN IF plan = <<>> \/ version = dbVersion
        THEN /\ UNCHANGED <<dbVersion, dbSchema>>
             /\ databaseConfigurationEnded' = TRUE
             /\ migrationRuns' = migrationRuns + 1
             /\ gatePc' = [gatePc EXCEPT ![c] = "waiting"]
        ELSE IF version > dbVersion /\ upgraded.ok
        THEN /\ dbVersion' = version
             /\ dbSchema' = upgraded.schema
             /\ databaseConfigurationEnded' = TRUE
             /\ migrationRuns' = migrationRuns + 1
             /\ gatePc' = [gatePc EXCEPT ![c] = "waiting"]
        ELSE /\ dbVersion' = IF version > dbVersion THEN version ELSE dbVersion
             /\ dbSchema' = IF version > dbVersion THEN upgraded.schema ELSE dbSchema
             /\ UNCHANGED <<databaseConfigurationEnded, migrationRuns>>
             /\ gatePc' = [gatePc EXCEPT ![c] = "failed"]
  /\ cfg' = [cfg EXCEPT ![c] = NoCfg]
  /\ UNCHANGED <<databaseConfigurationStarted, databaseSchema>>
  /\ UNCHANGED notDb

\* #configureDatabase, second half, and the flag set after it: a non-empty
\* plan is applied in one upgrade transaction to version databaseVersion + 1
ConfigureUpgrade(c) ==
  /\ gatePc[c] = "upgrade"
  /\ \A d \in GateCallers : gatePc[d] # "holding"
  /\ LET plan == cfg[c].databaseMigrations
         version == cfg[c].databaseVersion + 1
         upgraded == Upgrade(dbSchema, plan)
     IN IF plan = <<>>
        THEN /\ UNCHANGED <<dbVersion, dbSchema>>
             /\ databaseConfigurationEnded' = TRUE
             /\ migrationRuns' = migrationRuns + 1
             /\ gatePc' = [gatePc EXCEPT ![c] = "waiting"]
        ELSE IF version = dbVersion
        THEN \* the store is at that version already: no upgrade takes place
             /\ UNCHANGED <<dbVersion, dbSchema>>
             /\ databaseConfigurationEnded' = TRUE
             /\ migrationRuns' = migrationRuns + 1
             /\ gatePc' = [gatePc EXCEPT ![c] = "waiting"]
        ELSE IF version > dbVersion /\ upgraded.ok
        THEN /\ dbVersion' = version
             /\ dbSchema' = upgraded.schema
             /\ databaseConfigurationEnded' = TRUE
             /\ migrationRuns' = migrationRuns + 1
             /\ gatePc' = [gatePc EXCEPT ![c] = "waiting"]
        ELSE \* a version error or a refused step: nothing is committed
             /\ UNCHANGED <<dbVersion, dbSchema, databaseConfigurationEnded,
                            migrationRuns>>
             /\ gatePc' = [gatePc EXCEPT ![c] = "failed"]
  /\ cfg' = [cfg EXCEPT ![c] = NoCfg]
  /\ UNCHANGED <<databaseConfigurationStarted, databaseSchema>>
  /\ UNCHANGED notDb

\* a failed upgrade after which the started flag is reset
ConfigureFailResets(c) ==
  /\ gatePc[c] = "upgrade"
  /\ cfg[c].databaseMigrations # <<>>
  /\ gatePc' = [gatePc EXCEPT ![c] = "failed"]
  /\ cfg' = [cfg EXCEPT ![c] = NoCfg]
  /\ databaseConfigurationStarted' = FALSE
  /\ UNCHANGED <<databaseConfigurationEnded, databaseSchema, dbVersion, dbSchema,
                 migrationRuns>>
  /\ UNCHANGED notDb

\* the store fails the upgrade for a reason of its own: nothing is committed
ConfigureFail(c) ==
  /\ gatePc[c] = "upgrade"
  /\ cfg[c].databaseMigrations # <<>>
  /\ gatePc' = [gatePc EXCEPT ![c] = "failed"]
  /\ cfg' = [cfg EXCEPT ![c] = NoCfg]
  /\ UNCHANGED <<databaseConfigurationStarted, databaseConfigurationEnded,
                 databaseSchema, dbVersion, dbSchema, migrationRuns>>
  /\ UNCHANGED notDb

\* the upgrade never finishes: the request for the new version stays blocked,
\* and the caller stays suspended on `await this.#configureDatabase()`
ConfigureHang(c) ==
  /\ gatePc[c] = "upgrade"
  /\ cfg[c].databaseMigrations # <<>>
  /\ gatePc' = [gatePc EXCEPT ![c] = "hung"]
  /\ UNCHANGED <<databaseConfigurationStarted, databaseConfigurationEnded,
                 databaseSchema, dbVersion, dbSchema, cfg, migrationRuns>>
  /\ UNCHANGED notDb

\* waitUntil(() => this.#databaseConfigurationEnded) finds the flag set
WaitUntilEnded(c) ==
  /\ gatePc[c] = "waiting"
  /\ databaseConfigurationEnded
  /\ gatePc' = [gatePc EXCEPT ![c] = "opening"]
  /\ UNCHANGED <<databaseConfigurationStarted, databaseConfigurationEnded,
                 databaseSchema, dbVersion, dbSchema, cfg, migrationRuns>>
  /\ UNCHANGED notDb

\* waitUntil gives up: the flag was not set within the timeout
WaitUntilTimeout(c) ==
  /\ gatePc[c] = "waiting"
  /\ ~databaseConfigurationEnded
  /\ gatePc' = [gatePc EXCEPT ![c] = "timedOut"]
  /\ UNCHANGED <<databaseConfigurationStarted, databaseConfigurationEnded,
                 databaseSchema, dbVersion, dbSchema, cfg, migrationRuns>>
  /\ UNCHANGED notDb

\* _openTransaction after the gate: the caller obtains a transaction, or an
\* error when the store has no collection to open one on
OpenTransaction(c) ==
  /\ gatePc[c] = "opening"
  /\ dbVersion' = IF dbVersion = 0 THEN 1 ELSE dbVersion
  /\ gatePc' = [gatePc EXCEPT ![c] =
                  IF DOMAIN dbSchema = {} THEN "failed" ELSE "holding"]
  /\ UNCHANGED <<databaseConfigurationStarted, databaseConfigurationEnded,
                 databaseSchema, dbSchema, cfg, migrationRuns>>
  /\ UNCHANGED notDb

\* the transaction of the caller completes
TransactionComplete(c) ==
  /\ gatePc[c] = "holding"
  /\ gatePc' = [gatePc EXCEPT ![c] = "idle"]
  /\ UNCHANGED <<databaseConfigurationStarted, databaseConfigurationEnded,
                 databaseSchema, dbVersion, dbSchema, cfg, migrationRuns>>
  /\ UNCHANGED notDb

\* destroy(): the store is deleted, which waits for the open transactions,
\* then both flags are reset
Destroy ==
  /\ \A c \in GateCallers : gatePc[c] # "holding"
  /\ dbVersion' = 0
  /\ dbSchema' = NoStores
  /\ migrationRuns' = 0
  /\ databaseConfigurationStarted' = FALSE
  /\ databaseConfigurationEnded' = FALSE
  /\ UNCHANGED <<databaseSchema, gatePc, cfg>>
  /\ UNCHANGED notDb

\* the application is started again on the store it left: a new engine object
Restart ==
  /\ \A c \in GateCallers : gatePc[c] \in {"idle", "failed", "timedOut"}
  /\ databaseConfigurationStarted
  /\ migrationRuns < MaxRuns
  /\ databaseConfigurationStarted' = FALSE
  /\ databaseConfigurationEnded' = FALSE
  /\ gatePc' = [c \in GateCallers |-> "idle"]
  /\ UNCHANGED <<databaseSchema, dbVersion, dbSchema, cfg, migrationRuns>>
  /\ UNCHANGED notDb

\* the migration engine on every declared schema and every store it can find
InitMigration ==
  /\ databaseSchema \in DeclaredSchemas
  /\ dbSchema \in PersistedSchemas
  /\ dbVersion = IF dbSchema = NoStores THEN 0 ELSE 2
  /\ databaseConfigurationStarted = FALSE
  /\ databaseConfigurationEnded = FALSE
  /\ gatePc = [c \in GateCallers |-> "idle"]
  /\ cfg = [c \in GateCallers |-> NoCfg]
  /\ migrationRuns = 0
  /\ SyncAtRest
  /\ StoresEmpty
  /\ RequestAtRest
  /\ RouteAtRest

NextMigration ==
  \/ DatabaseReady("c1")
  \/ ConfigureRead("c1")
  \/ ConfigureUpgrade("c1")
  \/ ConfigureFail("c1")
  \/ WaitUntilEnded("c1")
  \/ WaitUntilTimeout("c1")
  \/ OpenTransaction("c1")
  \/ TransactionComplete("c1")
  \/ Restart

SpecMigration == InitMigration /\ [][NextMigration]_vars

\* the gate under concurrent store accesses and destroy(), on a fresh store
StandardSchema ==
  addStore(ReservedSchema, "Contact",
           [keyPath |-> Str("id"), indexes |-> OneIndex("byName", Str("name"))])

InitGate ==
  /\ databaseSchema = StandardSchema
  /\ dbSchema = NoStores
  /\ dbVersion = 0
  /\ databaseConfigurationStarted = FALSE
  /\ databaseConfigurationEnded = FALSE
  /\ gatePc = [c \in GateCallers |-> "idle"]
  /\ cfg = [c \in GateCallers |-> NoCfg]
  /\ migrationRuns = 0
  /\ SyncAtRest
  /\ StoresEmpty
  /\ RequestAtRest
  /\ RouteAtRest

NextGate ==
  \/ \E c \in GateCallers : DatabaseReady(c)
  \/ \E c \in GateCallers : ConfigureRead(c)
  \/ \E c \in GateCallers : ConfigureUpgrade(c)
  \/ \E c \in GateCallers : ConfigureFail(c)
  \/ \E c \in GateCallers : WaitUntilEnded(c)
  \/ \E c \in GateCallers : WaitUntilTimeout(c)
  \/ \E c \in GateCallers : OpenTransaction(c)
  \/ \E c \in GateCallers : TransactionComplete(c)
  \/ Destroy

SpecGate == InitGate /\ [][NextGate]_vars

\* C6 (as claimed): a migration run that follows a completed run against the
\* same declared schema builds an empty plan
C6_SecondRunPlansNothing ==
  \A c \in GateCallers :
    (gatePc[c] = "upgrade" /\ migrationRuns >= 1) => cfg[c].databaseMigrations = <<>>

\* C7 (as claimed): once a migration run has completed, the persisted schema
\* is the declared schema: same stores, same key paths, same indexes
C7_PersistedEqualsDeclared ==
  migrationRuns >= 1 => dbSchema = databaseSchema

\* C10 (as claimed): no caller obtains a transaction while a caller is inside
\* a migration run
C10_NoTransactionDuringMigration ==
  [][\A c \in GateCallers :
       (gatePc[c] # "holding" /\ gatePc'[c] = "holding")
         => ~ \E d \in GateCallers : InConfiguration(d)]_vars

\* the declared schema of an application whose only store is Contact, with
\* primary key 'id' and no index
EndToEndSchema ==
  addStore(ReservedSchema, "Contact", [keyPath |-> Str("id"), indexes |-> NoStores])

\* caller c has built the plan of the first run against an empty store
FirstRunOnEmptyStore(c) ==
  /\ databaseSchema = EndToEndSchema
  /\ gatePc[c] = "upgrade"
  /\ migrationRuns = 0
  /\ dbSchema = NoStores

\* caller c has built the plan of a run that follows a completed run
NextRun(c) ==
  /\ databaseSchema = EndToEndSchema
  /\ gatePc[c] = "upgrade"
  /\ migrationRuns >= 1

\* C17 (as claimed): with the Contact configuration and an empty store the
\* first run plans the creation of the Contact store and nothing else, and
\* the next run plans nothing
C17_PlanCreatesContactOnly ==
  \A c \in GateCallers :
    /\ FirstRunOnEmptyStore(c) =>
         cfg[c].databaseMigrations = <<CreateStore("Contact", Str("id"))>>
    /\ NextRun(c) => cfg[c].databaseMigrations = <<>>

\* C17 (amended): with the Contact configuration and an empty store the first
\* run plans, in this order, the creation of the metadata store, of the
\* sync-queue store, of the createdAt index of the sync-queue store and of the
\* Contact store, and the next run plans nothing
C17_PlanCreatesReservedAndContact ==
  \A c \in GateCallers :
    /\ FirstRunOnEmptyStore(c) =>
         cfg[c].databaseMigrations =
           <<CreateStore(metadataStoreName, NullKeyPath),
             CreateStore(syncQueueStoreName, Str("id")),
             CreateIndex(syncQueueStoreName, "createdAt", Str("createdAt")),
             CreateStore("Contact", Str("id"))>>
    /\ NextRun(c) => cfg[c].databaseMigrations = <<>>

\* C17 witness: the second run against the store the first run created, at
\* version 2 with the three stores, has built its plan
C17_Witness ==
  /\ NextRun("c1")
  /\ migrationRuns = 1
  /\ dbVersion = 2
  /\ dbSchema = EndToEndSchema
  /\ cfg["c1"].databaseMigrations = <<>>

\* the migration run of caller c completes in this step
RunCompletes(c) == gatePc[c] = "upgrade" /\ gatePc'[c] = "waiting"

\* C18: a migration run that completes with a non-empty plan leaves the
\* structural version one above the version it found, and a run whose plan is
\* empty changes neither the structural version nor the persisted schema.
C18_VersionBumpedByOne ==
  [][\A c \in GateCallers :
       RunCompletes(c) =>
         IF cfg[c].databaseMigrations # <<>>
         THEN dbVersion' = dbVersion + 1
         ELSE dbVersion' = dbVersion /\ dbSchema' = dbSchema]_vars

\* C18 witness: a store found at version 2 was migrated to the declared
\* schema at version 3 by one run, and the application restarted on it has
\* completed a second run, which left it at version 3
C18_Witness ==
  /\ migrationRuns = 2
  /\ gatePc["c1"] = "waiting"
  /\ dbVersion = 3
  /\ dbSchema = databaseSchema

IndexSet == {IndexNames[k] : k \in 1..Len(IndexNames)}

\* the steps for index i of a store n of both schemas; two key paths differ
\* when they are not the same value
IndexDiff(n, i, current, new) ==
  LET cur == current[n].indexes
      nw == new[n].indexes
  IN IF i \in DOMAIN cur /\ i \notin DOMAIN nw
     THEN {DeleteIndex(n, i)}
     ELSE IF i \in DOMAIN cur /\ i \in DOMAIN nw /\ cur[i] # nw[i]
     THEN {DeleteIndex(n, i), CreateIndex(n, i, nw[i])}
     ELSE IF i \notin DOMAIN cur /\ i \in DOMAIN nw
     THEN {CreateIndex(n, i, nw[i])}
     ELSE {}

\* the steps that bring the persisted schema `current` to the declared schema
\* `new`, as a set
DiffSteps(current, new) ==
  UNION {IndexDiff(n, i, current, new) :
           n \in DOMAIN current \cap DOMAIN new, i \in IndexSet}
    \cup {DeleteStore(n) : n \in DOMAIN current \ DOMAIN new}
    \cup UNION {{CreateStore(n, new[n].keyPath)}
                  \cup {CreateIndex(n, i, new[n].indexes[i]) :
                          i \in DOMAIN new[n].indexes} :
                n \in DOMAIN new \ DOMAIN current}

\* in plan, step a comes before step b whenever both are about the same
\* store and index (or the same store, for a store's creation)
InOrder(plan) ==
  \A j, k \in 1..Len(plan) :
    /\ (/\ plan[j].op = "deleteIndex" /\ plan[k].op = "createIndex"
        /\ plan[j].storeName = plan[k].storeName
        /\ plan[j].indexName = plan[k].indexName) => j < k
    /\ (/\ plan[j].op = "createStore" /\ plan[k].op = "createIndex"
        /\ plan[j].storeName = plan[k].storeName) => j < k

\* C19 (as claimed): the plan a run builds holds, once each, exactly the steps
\* of the difference between the persisted and the declared schema, an index
\* being deleted and recreated only when its key path differs, with every
\* deletion of an index before its creation and every creation of a store
\* before the creation of its indexes
C19_PlanIsExactlyTheDiff ==
  \A c \in GateCallers :
    gatePc[c] = "upgrade" =>
      LET plan == cfg[c].databaseMigrations
          steps == {plan[k] : k \in 1..Len(plan)}
      IN /\ steps = DiffSteps(dbSchema, databaseSchema)
         /\ Cardinality(steps) = Len(plan)
         /\ InOrder(plan)

(***************************************************************************)
(* The migration engine on declared schemas the store may refuse           *)
(***************************************************************************)
\* a Contact store declared with an index on something that is no key path
RefusedSchemas ==
  {addStore(ReservedSchema, "Contact",
            [keyPath |-> k, indexes |-> OneIndex("byName", InvalidKeyPath)]) :
     k \in {Str("id"), Str("uuid")}}

InitAtomic ==
  /\ databaseSchema \in DeclaredSchemas \cup RefusedSchemas
  /\ dbSchema \in PersistedSchemas
  /\ dbVersion = IF dbSchema = NoStores THEN 0 ELSE 2
  /\ databaseConfigurationStarted = FALSE
  /\ databaseConfigurationEnded = FALSE
  /\ gatePc = [c \in GateCallers |-> "idle"]
  /\ cfg = [c \in GateCallers |-> NoCfg]
  /\ migrationRuns = 0
  /\ SyncAtRest
  /\ StoresEmpty
  /\ RequestAtRest
  /\ RouteAtRest

SpecAtomic == InitAtomic /\ [][NextMigration]_vars

\* the migration run of caller c fails in this step
RunFails(c) == gatePc[c] = "upgrade" /\ gatePc'[c] = "failed"

\* C16: a migration run that fails, whichever step of its plan fails, leaves
\* the persisted schema as it was, and the structural version at the version
\* the run read when it started.
C16_PlanAllOrNothing ==
  [][\A c \in GateCallers :
       RunFails(c) => /\ dbSchema' = dbSchema
                      /\ dbVersion' = dbVersion
                      /\ dbVersion' = cfg[c].databaseVersion]_vars

\* C16 witness: a run has failed on a plan that deletes the byName index of
\* the Contact store, which the store accepts, and then creates it again on
\* something the store refuses; the index is still there, at the same version
C16_Witness ==
  /\ gatePc["c1"] = "failed"
  /\ databaseSchema \in RefusedSchemas
  /\ "Contact" \in DOMAIN dbSchema
  /\ "byName" \in DOMAIN dbSchema["Contact"].indexes
  /\ dbVersion = 2

(***************************************************************************)
(* The gate during one lifetime of the store: destroy() is not called      *)
(***************************************************************************)
NextOnce ==
  \/ \E c \in GateCallers : DatabaseReady(c)
  \/ \E c \in GateCallers : ConfigureRead(c)
  \/ \E c \in GateCallers : ConfigureUpgrade(c)
  \/ \E c \in GateCallers : ConfigureFail(c)
  \/ \E c \in GateCallers : WaitUntilEnded(c)
  \/ \E c \in GateCallers : WaitUntilTimeout(c)
  \/ \E c \in GateCallers : OpenTransaction(c)
  \/ \E c \in GateCallers : TransactionComplete(c)

SpecOnce == InitGate /\ [][NextOnce]_vars

\* caller c enters #databaseReady in this step
EntersGate(c) ==
  /\ gatePc[c] \in {"idle", "failed", "timedOut"}
  /\ gatePc'[c] # gatePc[c]

\* C11: as long as destroy() is not called, at most one caller is inside
\* #configureDatabase; a caller entering the gate starts a run only if no run
\* is in progress and none has completed, the first caller to enter does start
\* one, and a caller entering while a run is in progress only waits for the
\* completion flag.
C11_MigrationRunsOnce ==
  /\ [](Cardinality({c \in GateCallers : InConfiguration(c)}) <= 1)
  /\ [](migrationRuns <= 1)
  /\ [][\A c \in GateCallers :
          EntersGate(c) =>
            /\ gatePc'[c] \in {"configure", "waiting"}
            /\ gatePc'[c] = "configure" =>
                  /\ ~ \E d \in GateCallers : InConfiguration(d)
                  /\ migrationRuns = 0
            /\ (\E d \in GateCallers : InConfiguration(d)) => gatePc'[c] = "waiting"
            /\ ~databaseConfigurationStarted => gatePc'[c] = "configure"]_vars

\* C11 witness: one caller is applying the plan it built while the two other
\* callers, which entered the gate during the run, wait for the flag
C11_Witness ==
  \E c \in GateCallers :
    /\ gatePc[c] = "upgrade"
    /\ cfg[c].databaseMigrations # <<>>
    /\ \A d \in GateCallers \ {c} : gatePc[d] = "waiting"

\* the one migration run of this lifetime of the store has failed
RunHasFailed ==
  /\ \E c \in GateCallers : gatePc[c] \in {"failed", "waiting", "timedOut"}
  /\ databaseConfigurationStarted
  /\ ~databaseConfigurationEnded
  /\ ~ \E d \in GateCallers : InConfiguration(d)

\* C21: as long as destroy() is not called, a migration run that fails leaves
\* the started flag set and the completion flag unset; from then on the flags
\* stay so, no caller enters #configureDatabase or obtains a transaction, and
\* every caller that enters the gate waits and then fails with a
\* readiness-timeout error.
C21_NoRetryAfterFailedRun ==
  /\ [][\A c \in GateCallers : RunFails(c) => RunHasFailed']_vars
  /\ [][RunHasFailed => RunHasFailed']_vars
  /\ [](RunHasFailed =>
          \A c \in GateCallers : gatePc[c] \in {"idle", "failed", "waiting", "timedOut"})
  /\ [][\A c \in GateCallers :
          (RunHasFailed /\ EntersGate(c)) => gatePc'[c] = "waiting"]_vars
  /\ [][\A c \in GateCallers :
          (RunHasFailed /\ gatePc[c] = "waiting" /\ gatePc'[c] # "waiting")
            => gatePc'[c] = "timedOut"]_vars

\* C21 witness: the run of one caller has failed; a second caller, which
\* entered the gate afterwards, has timed out, and a third one is waiting
C21_Witness ==
  \E c, d, e \in GateCallers :
    /\ gatePc[c] = "failed"
    /\ gatePc[d] = "timedOut"
    /\ gatePc[e] = "waiting"
    /\ databaseConfigurationStarted
    /\ ~databaseConfigurationEnded

(***************************************************************************)
(* Progress at the gate: every continuation that is ready to run is run,   *)
(* every pending store request and every timer settles                     *)
(***************************************************************************)
NextLive ==
  \/ NextOnce
  \/ \E c \in GateCallers : ConfigureHang(c)

\* the run of a caller goes on; its outcome is not chosen by fairness
FairLive ==
  \A c \in GateCallers :
    /\ WF_vars(ConfigureRead(c))
    /\ WF_vars(ConfigureUpgrade(c) \/ ConfigureFail(c) \/ ConfigureHang(c))
    /\ WF_vars(WaitUntilEnded(c) \/ WaitUntilTimeout(c))
    /\ WF_vars(OpenTransaction(c))
    /\ WF_vars(TransactionComplete(c))

SpecLive == InitGate /\ [][NextLive]_vars /\ FairLive

\* caller c has asked for store access and has no answer yet
AtGate(c) == gatePc[c] \in {"configure", "upgrade", "hung", "waiting", "opening"}

\* caller c has its transaction, or was given a failure
Answered(c) == gatePc[c] \in {"holding", "timedOut", "failed"}

\* C12 (as claimed): every caller that asks for store access eventually
\* obtains it or is given a failure, whether the migration run succeeds, fails
\* or never finishes; the error of a failed run, raised to the caller that
\* started it, is counted as such a failure
C12_EveryCallerIsAnswered ==
  \A c \in GateCallers : AtGate(c) ~> Answered(c)

(***************************************************************************)
(* Claims about the synchronization engine                                 *)
(***************************************************************************)
InRound == {p \in SyncCallers : syncPc[p] # "idle"}

\* caller p invokes sync() in this step while another caller's round is active
ConcurrentSyncCall(p) ==
  /\ syncPc[p] = "idle"
  /\ \E q \in SyncCallers \ {p} : syncPc[q] # "idle"
  /\ syncPc'[p] # syncPc[p] \/ syncResult'[p] # syncResult[p]

\* C1: at most one synchronization round is active at any time, so at most one
\* network exchange is in flight; a sync() call made while another round is in
\* progress returns without error, starts no round of its own and changes no
\* store, no sync-queue entry, no watermark, and not the guard.
C1_OneRoundAtATime ==
  /\ [](Cardinality(InRound) <= 1)
  /\ [][\A p \in SyncCallers :
          ConcurrentSyncCall(p) =>
            /\ syncPc'[p] = "idle"
            /\ syncResult'[p] = "noop"
            /\ UNCHANGED <<stores, syncQueue, lastChangeAt, syncInProgress>>]_vars

\* C1 witness: one caller's round is in its network exchange and the other
\* caller's concurrent call has returned as a no-op
C1_Witness ==
  \E p, q \in SyncCallers :
    /\ syncPc[p] = "fetch"
    /\ syncPc[q] = "idle"
    /\ syncResult[q] = "noop"

\* C2 (as claimed): the persisted watermark never moves back, whatever the
\* createdAt values of the server-changes
C2_WatermarkMonotonic == [][lastChangeAt' >= lastChangeAt]_vars

\* C3 (as claimed): an entry leaves the sync queue only in the write-back of a
\* round that had read it from the queue
C3_EntryClearedOnlyIfCaptured ==
  [][\A e \in syncQueue \ syncQueue' :
       \E p \in SyncCallers :
         /\ syncPc[p] = "write"
         /\ \E i \in 1..Len(syncLocal[p].syncQueueItems) :
              syncLocal[p].syncQueueItems[i] = e]_vars

PairsOf(entries) == {<<e.storeName, e.primaryKey>> : e \in entries}

\* C5: the client payload of a round has exactly one entry per distinct
\* (storeName, primaryKey) pair of the sync queue, and that entry carries the
\* greatest createdAt among the queue entries of the pair.
C5_PayloadDeduplicated ==
  \A p \in SyncCallers :
    syncPc[p] = "fetch" =>
      LET payload == syncLocal[p].clientData
      IN /\ Len(payload) = Cardinality(PairsOf(syncQueue))
         /\ \A pair \in PairsOf(syncQueue) :
              \E i \in 1..Len(payload) :
                /\ <<payload[i].storeName, payload[i].primaryKey>> = pair
                /\ \A e \in syncQueue :
                     <<e.storeName, e.primaryKey>> = pair =>
                       payload[i].createdAt >= e.createdAt

\* C5 witness: the queue holds three entries, two of them for the same record
\* at different times, and the payload built from it has two entries
C5_Witness ==
  \E p \in SyncCallers :
    /\ syncPc[p] = "fetch"
    /\ Cardinality(syncQueue) = 3
    /\ Len(syncLocal[p].clientData) = 2
    /\ \E e, f \in syncQueue :
         /\ e.storeName = f.storeName /\ e.primaryKey = f.primaryKey
         /\ e.createdAt < f.createdAt

\* the round of caller p ends in this step
RoundEnds(p) == syncPc[p] # "idle" /\ syncPc'[p] = "idle"

\* caller p invokes sync() in this step while no round is active
QuietSyncCall(p) ==
  /\ \A q \in SyncCallers : syncPc[q] = "idle"
  /\ syncPc'[p] # syncPc[p] \/ syncResult'[p] # syncResult[p]

\* C15: when a round ends, by success or by an error at any step, the guard is
\* false afterwards; a round that ends before its write-back ends with the
\* error raised to its caller; and a sync() call made when no round is active
\* starts a round.
C15_GuardReleased ==
  /\ [][\A p \in SyncCallers :
          RoundEnds(p) =>
            /\ syncInProgress' = FALSE
            /\ syncResult'[p] \in {"ok", "error"}
            /\ syncPc[p] \in {"read", "fetch"} => syncResult'[p] = "error"]_vars
  /\ []((\A p \in SyncCallers : syncPc[p] = "idle") => ~syncInProgress)
  /\ [][\A p \in SyncCallers : QuietSyncCall(p) => syncPc'[p] = "read"]_vars

\* C15 witness: the round of one caller has ended with an error and the round
\* of the other caller, started after it, is running
C15_Witness ==
  \E p, q \in SyncCallers :
    /\ p # q
    /\ syncResult[p] = "error"
    /\ syncPc[p] = "idle"
    /\ syncPc[q] = "write"
    /\ syncInProgress

\* C20: a round whose remote exchange fails changes nothing locally: no step
\* of it, from the call of sync() to the failure of the exchange, changes an
\* entity store, a sync-queue entry or the persisted watermark, so that the
\* round that follows it builds its payload from the same queue.
C20_FailedExchangeChangesNothing ==
  /\ [][\A p \in SyncCallers :
          (syncPc[p] = "fetch" /\ syncPc'[p] = "idle") =>
            /\ syncResult'[p] = "error"
            /\ UNCHANGED <<stores, syncQueue, lastChangeAt>>]_vars
  /\ [][\A p \in SyncCallers :
          syncPc'[p] # syncPc[p] => UNCHANGED <<stores, syncQueue, lastChangeAt>>]_vars

\* C20 witness: the exchange of one caller's round has failed on a queue of
\* three entries, and the round of the other caller, started after it, is at
\* its exchange with a payload for each of the two records of the queue
C20_Witness ==
  \E p, q \in SyncCallers :
    /\ syncResult[p] = "error"
    /\ syncPc[p] = "idle"
    /\ syncPc[q] = "fetch"
    /\ Cardinality(syncQueue) = 3
    /\ Len(syncLocal[q].clientData) = 2

\* the write-back of the round of caller p takes place in this step
WritesBack(p) == syncPc[p] = "write" /\ syncPc'[p] = "idle"

\* C22: the write-back of a round, which upserts the server-changes into
\* their stores, appends no entry to the sync queue: the queue after it holds
\* no entry that it did not hold before, and no entry was created.
C22_MergeRecordsNoMutation ==
  [][\A p \in SyncCallers :
       WritesBack(p) => /\ syncQueue' \subseteq syncQueue
                        /\ nextId' = nextId]_vars

\* C22 witness: a round has merged a server-change for a record into its
\* store, no local mutation was ever made, and the sync queue is empty
C22_Witness ==
  \E p \in SyncCallers :
    /\ syncResult[p] = "ok"
    /\ syncPc[p] = "idle"
    /\ \E r \in ServerRecords : stores[r] = "remote"
    /\ nextId = 0
    /\ syncQueue = {}

====
